---- MODULE Spec2Model ----
(***************************************************************************)
(* A model of python/graphstorm/wholegraph/wholegraph.py: the resharder    *)
(* (wholegraph_processing), the feature-file trimmer (trim_feat_files),    *)
(* the two conversion paths (convert_feat_to_wholegraph) and the           *)
(* distributed tensor handle (WholeGraphDistTensor).                       *)
(*                                                                         *)
(* Each part of the program has its own specification over its own group   *)
(* of variables; the other groups stay at their initial values.            *)
(***************************************************************************)
EXTENDS Integers, Sequences, FiniteSets, TLC

(***************************************************************************)
(* Bounds of the model.                                                    *)
(***************************************************************************)
\* largest row count of a tensor handed to wholegraph_processing
MaxRows == 12
\* largest target shard count (num_parts) handed to wholegraph_processing
MaxShards == 5

(***************************************************************************)
(* State of one call of wholegraph_processing (lines 72-118).              *)
(***************************************************************************)
VARIABLES
    wp_rows,        \* whole_feat_tensor.shape[0]
    wp_num_parts,   \* num_parts, the target shard count
    wp_pc,          \* position in the function
    part_num,       \* the loop variable of line 98
    wp_ranges,      \* the <<st, end>> pairs computed so far, shard 0 first
    wp_meta,        \* TRUE once metadata[feat] is recorded (line 90)
    wp_live,        \* shard indices whose wg_tensor is created and not destroyed
    wp_written      \* shard indices whose file has been written (line 117)

wpVars == <<wp_rows, wp_num_parts, wp_pc, part_num, wp_ranges, wp_meta,
            wp_live, wp_written>>

\* Python's floor division a // b for b # 0
PyFloorDiv(a, b) ==
    IF b > 0 THEN a \div b ELSE (-a) \div (-b)

\* a mutation of SubpartSize: the division rounds down instead of up
SubpartSizeFloor(rows, num_parts) ==
    PyFloorDiv(rows, num_parts)

\* line 96: subpart_size = -(whole_feat_tensor.shape[0] // -num_parts)
SubpartSize(rows, num_parts) ==
    -(PyFloorDiv(rows, -num_parts))

\* line 99: st = part_num * subpart_size
ShardSt(rows, num_parts, p) ==
    p * SubpartSize(rows, num_parts)

\* a mutation of ShardEnd: the last shard ends at a multiple of subpart_size too
ShardEndNoLast(rows, num_parts, p) ==
    (p + 1) * SubpartSize(rows, num_parts)

\* lines 100-102: end = (part_num + 1) * subpart_size, or shape[0] for the last
ShardEnd(rows, num_parts, p) ==
    IF p # num_parts - 1
    THEN (p + 1) * SubpartSize(rows, num_parts)
    ELSE rows

WPInit ==
    /\ wp_rows \in 1..MaxRows
    /\ wp_num_parts \in 1..MaxShards
    /\ wp_pc = "start"
    /\ part_num = 0
    /\ wp_ranges = <<>>
    /\ wp_meta = FALSE
    /\ wp_live = {}
    /\ wp_written = {}

\* lines 90-96: record the metadata entry, take the communicator, size the shards
WP_Enter ==
    /\ wp_pc = "start"
    /\ wp_meta' = TRUE
    /\ wp_pc' = "loop"
    /\ UNCHANGED <<wp_rows, wp_num_parts, part_num, wp_ranges, wp_live, wp_written>>

\* lines 98-102: the next iteration computes its range
WP_Range ==
    /\ wp_pc = "loop"
    /\ part_num < wp_num_parts
    /\ wp_ranges' = Append(wp_ranges,
                           <<ShardSt(wp_rows, wp_num_parts, part_num),
                             ShardEnd(wp_rows, wp_num_parts, part_num)>>)
    /\ wp_pc' = "create"
    /\ UNCHANGED <<wp_rows, wp_num_parts, part_num, wp_meta, wp_live, wp_written>>

\* lines 104-111: create_wholememory_tensor returns the shard tensor
WP_Create ==
    /\ wp_pc = "create"
    /\ wp_live' = wp_live \cup {part_num}
    /\ wp_pc' = "copy"
    /\ UNCHANGED <<wp_rows, wp_num_parts, part_num, wp_ranges, wp_meta, wp_written>>

\* lines 112-113: the rows are copied into the shard's local tensor
WP_Copy ==
    /\ wp_pc = "copy"
    /\ wp_pc' = "write"
    /\ UNCHANGED <<wp_rows, wp_num_parts, part_num, wp_ranges, wp_meta,
                   wp_live, wp_written>>

\* lines 114-117: the shard is written to its file
WP_Write ==
    /\ wp_pc = "write"
    /\ wp_written' = wp_written \cup {part_num}
    /\ wp_pc' = "destroy"
    /\ UNCHANGED <<wp_rows, wp_num_parts, part_num, wp_ranges, wp_meta, wp_live>>

\* a mutation of WP_Destroy: the loop goes on without destroying the shard
WP_DestroySkipped ==
    /\ wp_pc = "destroy"
    /\ part_num' = part_num + 1
    /\ wp_pc' = "loop"
    /\ UNCHANGED <<wp_rows, wp_num_parts, wp_ranges, wp_meta, wp_live, wp_written>>

\* line 118, and the loop's step: the shard tensor is destroyed
WP_Destroy ==
    /\ wp_pc = "destroy"
    /\ wp_live' = wp_live \ {part_num}
    /\ part_num' = part_num + 1
    /\ wp_pc' = "loop"
    /\ UNCHANGED <<wp_rows, wp_num_parts, wp_ranges, wp_meta, wp_written>>

\* lines 104-117: a call of the sharded-memory service raises; nothing in the
\* function catches it, so the call ends there
WP_ServiceError ==
    /\ wp_pc \in {"create", "copy", "write"}
    /\ wp_pc' = "failed"
    /\ UNCHANGED <<wp_rows, wp_num_parts, part_num, wp_ranges, wp_meta,
                   wp_live, wp_written>>

\* line 98: the range is exhausted and the function returns
WP_Return ==
    /\ wp_pc = "loop"
    /\ part_num = wp_num_parts
    /\ wp_pc' = "done"
    /\ UNCHANGED <<wp_rows, wp_num_parts, part_num, wp_ranges, wp_meta,
                   wp_live, wp_written>>

\* the state of the group while another part of the program runs
WPIdle ==
    /\ wp_rows = 1
    /\ wp_num_parts = 1
    /\ wp_pc = "idle"
    /\ part_num = 0
    /\ wp_ranges = <<>>
    /\ wp_meta = FALSE
    /\ wp_live = {}
    /\ wp_written = {}

(***************************************************************************)
(* The process's view of the sharded-memory library (lines 32-70).         *)
(***************************************************************************)
VARIABLES
    wgth_installed,   \* FALSE when the import of lines 32-36 failed (wgth is None)
    version_ok,       \* pylibwholegraph.__version__ >= "23.12.00" (line 403)
    WHOLEGRAPH_INIT,  \* the module's flag (line 38)
    e_last,           \* the last call of a module-level entry point: its name,
                      \* its outcome, whether it reached the service
    e_nops            \* calls of module-level entry points so far

iVars == <<wgth_installed, version_ok, WHOLEGRAPH_INIT, e_last, e_nops>>

(***************************************************************************)
(* WholeGraphDistTensor (lines 372-598): one handle and the calls made on  *)
(* it.  Line 430 names shape, dtype and location, which are read as the    *)
(* values the handle was constructed with.                                 *)
(***************************************************************************)
\* largest number of calls made on the handle in one behaviour
MaxOps == 4
\* largest number of dimensions of the shape handed to the constructor
MaxDims == 3

VARIABLES
    h_exists,          \* TRUE once __init__ has returned a handle
    use_wg_optimizer,  \* self._use_wg_optimizer
    h_optimizer,       \* self._optimizer
    h_tensor,          \* self._tensor
    h_module,          \* self._module
    h_last,            \* the last call: its name, its outcome, whether it
                       \* reached the sharded-memory service
    h_nops,            \* calls made so far
    h_nbound,          \* times the handle became BOUND-TRAINABLE
    h_attached,        \* TRUE once a call of attach_wg_optimizer has returned
    h_ndim,            \* len(shape) of the shape the handle was created with
    h_log              \* the assignments to _optimizer, _tensor and _module
                       \* made so far, in the order they were made

hVars == <<h_exists, use_wg_optimizer, h_optimizer, h_tensor, h_module,
           h_last, h_nops, h_nbound, h_attached, h_ndim, h_log>>

None == "None"
\* the optimizers a caller may hand to attach_wg_optimizer; None is one of them
OptimizerArgs == {None, "opt1", "opt2"}
NoTensor == [made |-> FALSE, optimizer |-> None]
\* a tensor created by create_wg_dist_tensor(..., optimizer = o)
TensorWith(o) == [made |-> TRUE, optimizer |-> o]
\* wgth.WholeMemoryEmbeddingModule(self._tensor)
ModuleOf(t) == "module"

Call(op, result, svc) == [op |-> op, result |-> result, svc |-> svc]

\* the outcomes of create_wg_dist_tensor, which this file calls and does not
\* define: the tensor, or a failure of the sharded-memory service
CreateOutcomes == {"ok", "ServiceError"}

\* a mutation of EagerCreate: the constructor always defers the tensor
EagerCreateNever(use) ==
    FALSE

\* a mutation of EagerCreate: the constructor always creates the tensor
EagerCreateAlways(use) ==
    TRUE

\* lines 408-415: without an optimizer the tensor is created in the constructor
EagerCreate(use) ==
    ~use

HInit ==
    /\ h_exists = FALSE
    /\ use_wg_optimizer = FALSE
    /\ h_optimizer = None
    /\ h_tensor = NoTensor
    /\ h_module = None
    /\ h_last = Call("none", "ok", FALSE)
    /\ h_nops = 0
    /\ h_nbound = 0
    /\ h_attached = FALSE
    /\ h_ndim = 0
    /\ h_log = <<>>

HIdle == HInit

\* the entries of h_log
SetOptimizer(o) == <<"optimizer", o>>
SetTensor(t) == <<"tensor", t.optimizer>>
SetModule == <<"module", None>>

\* __init__ (lines 388-415) with a shape of ndim dimensions
H_Create(ndim, use) ==
    /\ ~h_exists
    /\ h_nops < MaxOps
    /\ h_nops' = h_nops + 1
    /\ UNCHANGED <<h_nbound, h_attached>>
    /\ IF ndim < 2
       THEN \* lines 396-397: shape[1] of a one-dimensional shape
            /\ h_last' = Call("create", "IndexError", FALSE)
            /\ UNCHANGED <<h_exists, use_wg_optimizer, h_optimizer, h_tensor, h_module,
                           h_ndim, h_log>>
       ELSE IF ~wgth_installed
       THEN \* line 403: the import of line 33 failed, the name is unbound
            /\ h_last' = Call("create", "NameError", FALSE)
            /\ UNCHANGED <<h_exists, use_wg_optimizer, h_optimizer, h_tensor, h_module,
                           h_ndim, h_log>>
       ELSE IF ~version_ok
       THEN \* lines 403-404
            /\ h_last' = Call("create", "AssertionError", FALSE)
            /\ UNCHANGED <<h_exists, use_wg_optimizer, h_optimizer, h_tensor, h_module,
                           h_ndim, h_log>>
       ELSE IF ~EagerCreate(use)
       THEN \* lines 408-411
            /\ h_exists' = TRUE
            /\ use_wg_optimizer' = use
            /\ h_tensor' = NoTensor
            /\ h_module' = None
            /\ h_optimizer' = None
            /\ h_ndim' = ndim
            /\ h_log' = h_log
            /\ h_last' = Call("create", "ok", FALSE)
       ELSE \* lines 412-415
            \E out \in CreateOutcomes :
                IF out = "ok"
                THEN /\ h_exists' = TRUE
                     /\ use_wg_optimizer' = use
                     /\ h_module' = None
                     /\ h_optimizer' = None
                     /\ h_tensor' = TensorWith(None)
                     /\ h_ndim' = ndim
                     /\ h_log' = Append(h_log, SetTensor(h_tensor'))
                     /\ h_last' = Call("create", "ok", TRUE)
                ELSE \* the constructor raises: no handle is returned
                     /\ h_last' = Call("create", out, TRUE)
                     /\ UNCHANGED <<h_exists, use_wg_optimizer, h_optimizer,
                                    h_tensor, h_module, h_ndim, h_log>>

\* a mutation of AttachCheck: the handle's present state is not looked at
AttachCheckNoState ==
    IF ~use_wg_optimizer THEN "AssertionError" ELSE "ok"

\* lines 419-428 and 432-433: the checks of attach_wg_optimizer, in order
AttachCheck ==
    IF ~use_wg_optimizer THEN "AssertionError"
    ELSE IF h_optimizer # None THEN "RuntimeError"
    ELSE IF h_tensor # NoTensor THEN "AssertionError"
    ELSE IF h_module # None THEN "AssertionError"
    ELSE "ok"

\* the three fields in the combination the data model calls BOUND-TRAINABLE
BoundTrainable(o, t, m) ==
    o # None /\ t # NoTensor /\ m # None

\* a mutation of AttachSteps: the tensor is created before the optimizer is
\* recorded
AttachStepsTensorFirst(wg_optimizer) ==
    <<SetTensor(TensorWith(wg_optimizer)), SetOptimizer(wg_optimizer), SetModule>>

\* lines 429-431: the three assignments of attach_wg_optimizer, in order
AttachSteps(wg_optimizer) ==
    <<SetOptimizer(wg_optimizer), SetTensor(TensorWith(wg_optimizer)), SetModule>>

\* attach_wg_optimizer (lines 418-433)
H_Attach(wg_optimizer) ==
    /\ h_exists
    /\ h_nops < MaxOps
    /\ h_nops' = h_nops + 1
    /\ UNCHANGED <<h_exists, use_wg_optimizer, h_ndim>>
    /\ IF AttachCheck # "ok"
       THEN /\ h_last' = Call("attach", AttachCheck, FALSE)
            /\ UNCHANGED <<h_optimizer, h_tensor, h_module, h_nbound, h_attached, h_log>>
       ELSE \/ \* lines 429-431 all run
               /\ h_optimizer' = wg_optimizer
               /\ h_tensor' = TensorWith(wg_optimizer)
               /\ h_module' = ModuleOf(h_tensor')
               /\ h_log' = h_log \o AttachSteps(wg_optimizer)
               /\ h_last' = Call("attach", "ok", TRUE)
               /\ h_attached' = TRUE
               /\ h_nbound' = IF BoundTrainable(h_optimizer', h_tensor', h_module')
                              THEN h_nbound + 1 ELSE h_nbound
            \/ \* line 430 raises: line 429 has run
               /\ h_optimizer' = wg_optimizer
               /\ h_log' = h_log \o SubSeq(AttachSteps(wg_optimizer), 1, 1)
               /\ h_last' = Call("attach", "ServiceError", TRUE)
               /\ UNCHANGED <<h_tensor, h_module, h_nbound, h_attached>>
            \/ \* line 431 raises: lines 429-430 have run
               /\ h_optimizer' = wg_optimizer
               /\ h_tensor' = TensorWith(wg_optimizer)
               /\ h_log' = h_log \o SubSeq(AttachSteps(wg_optimizer), 1, 2)
               /\ h_last' = Call("attach", "ServiceError", TRUE)
               /\ UNCHANGED <<h_module, h_nbound, h_attached>>

\* lines 454, 501, 523: assert self._tensor is not None
TensorCreated ==
    h_tensor # NoTensor

\* a call that asserts the tensor and then hands the work to the service:
\* __getitem__ (lines 509-526), __setitem__ (lines 489-507),
\* save_to_file (lines 435-456)
TensorCall(op) ==
    /\ h_exists
    /\ h_nops < MaxOps
    /\ h_nops' = h_nops + 1
    /\ UNCHANGED <<h_exists, use_wg_optimizer, h_optimizer, h_tensor, h_module,
                   h_nbound, h_attached, h_ndim, h_log>>
    /\ IF ~TensorCreated
       THEN h_last' = Call(op, "AssertionError", FALSE)
       ELSE \E out \in {"ok", "ServiceError"} : h_last' = Call(op, out, TRUE)

H_Read == TensorCall("read")

H_Write == TensorCall("write")

H_Save == TensorCall("save")

\* load_from_file (lines 458-487).  Lines 481-483 are a note, not statements:
\* with no tensor, warn when an optimizer is there, then "create _tensor and
\* optimzer is none".  The tensor is created without an optimizer; the note
\* leaves open whether self._optimizer is reset, so both are outcomes.
H_Load ==
    /\ h_exists
    /\ h_nops < MaxOps
    /\ h_nops' = h_nops + 1
    /\ UNCHANGED <<h_exists, use_wg_optimizer, h_module, h_nbound, h_attached, h_ndim>>
    /\ IF TensorCreated
       THEN /\ \E out \in {"ok", "ServiceError"} : h_last' = Call("load", out, TRUE)
            /\ UNCHANGED <<h_optimizer, h_tensor, h_log>>
       ELSE \E out \in CreateOutcomes :
                IF out = "ok"
                THEN /\ h_tensor' = TensorWith(None)
                     /\ h_optimizer' \in {h_optimizer, None}
                     /\ h_log' = Append(h_log, SetTensor(h_tensor'))
                     /\ \E res \in {"ok", "ServiceError"} :
                            h_last' = Call("load", res, TRUE)
                ELSE /\ h_last' = Call("load", out, TRUE)
                     /\ UNCHANGED <<h_optimizer, h_tensor, h_log>>

(***************************************************************************)
(* init_wholegraph and the module-level entry points that use the          *)
(* sharded-memory service (lines 40-70, 249-370).                          *)
(***************************************************************************)
IInit ==
    /\ wgth_installed \in BOOLEAN
    /\ version_ok \in BOOLEAN
    /\ WHOLEGRAPH_INIT = FALSE
    /\ e_last = Call("none", "ok", FALSE)
    /\ e_nops = 0

\* a process in which init_wholegraph has completed
IIdle ==
    /\ wgth_installed = TRUE
    /\ version_ok = TRUE
    /\ WHOLEGRAPH_INIT = TRUE
    /\ e_last = Call("none", "ok", FALSE)
    /\ e_nops = 0

\* is_wholegraph_init (lines 67-70)
is_wholegraph_init ==
    WHOLEGRAPH_INIT

\* init_wholegraph (lines 40-65): the flag is set by the last statement,
\* after the calls of lines 62-64 have returned
init_wholegraph ==
    /\ e_nops < MaxOps
    /\ e_nops' = e_nops + 1
    /\ UNCHANGED <<wgth_installed, version_ok>>
    /\ IF ~wgth_installed
       THEN \* lines 42-43
            /\ e_last' = Call("init_wholegraph", "ImportError", FALSE)
            /\ UNCHANGED WHOLEGRAPH_INIT
       ELSE \E out \in {"ok", "ServiceError"} :
                /\ e_last' = Call("init_wholegraph", out, TRUE)
                /\ WHOLEGRAPH_INIT' = IF out = "ok" THEN TRUE ELSE WHOLEGRAPH_INIT

\* an entry point that starts with the check of the flag and then works
\* through the service: load_wg_feat (lines 262-263), create_wholememory_
\* optimizer (lines 316-317), create_wg_sparse_params (lines 350-351)
EntryPoint(op) ==
    /\ e_nops < MaxOps
    /\ e_nops' = e_nops + 1
    /\ UNCHANGED <<wgth_installed, version_ok, WHOLEGRAPH_INIT>>
    /\ IF ~is_wholegraph_init
       THEN e_last' = Call(op, "ImportError", FALSE)
       ELSE \E out \in {"ok", "ServiceError"} : e_last' = Call(op, out, TRUE)

load_wg_feat == EntryPoint("load_wg_feat")

create_wholememory_optimizer == EntryPoint("create_wholememory_optimizer")

create_wg_sparse_params == EntryPoint("create_wg_sparse_params")

(***************************************************************************)
(* Feature keys, tensors and the files of a partitioned dataset.           *)
(***************************************************************************)
\* largest number of rows a partition holds of one feature
MaxPartRows == 2

\* entity types and feature names, as sequences of characters
TypeNames == {<<"n">>}
FeatNames == {<<"x">>, <<"y">>}

\* lines 185, 212, 242: feat = type_name + "/" + feat
FeatKey(type_name, feat) ==
    type_name \o <<"/">> \o feat

\* line 115: feat.replace("/", "~")
ReplaceSlash(feat) ==
    [i \in DOMAIN feat |-> IF feat[i] = "/" THEN "~" ELSE feat[i]]

AllFeatKeys == {FeatKey(t, f) : t \in TypeNames, f \in FeatNames}

\* the tensor partition k holds of feature feat: nrows rows, each one its own
OrigTensor(k, feat, nrows) ==
    [j \in 1..nrows |-> <<k, feat, j>>]

\* the feature mapping partition k holds: one tensor per key
OrigMapping(k, keys, nrows) ==
    [f \in keys |-> OrigTensor(k, f, nrows)]

\* del mapping[feat], for a key the mapping holds
DelKey(mapping, feat) ==
    [f \in (DOMAIN mapping) \ {feat} |-> mapping[f]]

\* A partition directory holds up to three files of one feature file name:
\* the file itself, its .bak sibling and the temporary new_<file>.  A file is
\* <<>> when absent and <<mapping>> when present.
Absent == <<>>
NoFiles == [file |-> Absent, bak |-> Absent, new |-> Absent]

\* The dataset folder is a function from the names of its partition
\* directories, sequences of characters, to their files.
DigitChars == <<"0", "1", "2", "3", "4", "5", "6", "7", "8", "9">>

RECURSIVE PyStr(_)
\* str(n) of a natural number, as f"part{part}" formats it
PyStr(n) ==
    IF n < 10 THEN <<DigitChars[n + 1]>>
    ELSE PyStr(n \div 10) \o <<DigitChars[(n % 10) + 1]>>

DigitValue(c) == CHOOSE v \in 0..9 : DigitChars[v + 1] = c

RECURSIVE PyInt(_)
\* int(s) of a non-empty string of decimal digits
PyInt(s) ==
    IF Len(s) = 1 THEN DigitValue(s[1])
    ELSE 10 * PyInt(SubSeq(s, 1, Len(s) - 1)) + DigitValue(s[Len(s)])

\* lines 136-144: f"part{part}"
PartDirName(part) ==
    <<"p", "a", "r", "t">> \o PyStr(part)

\* dgl.data.utils.save_tensors(<dir>/<slot>, mapping), lines 135-137:
\* the file is written, replacing what was there; the directory must exist
SaveTensors(d, dir, slot, mapping) ==
    IF dir \notin DOMAIN d
    THEN [disk |-> d, err |-> "FileNotFoundError"]
    ELSE [disk |-> [d EXCEPT ![dir][slot] = <<mapping>>], err |-> "ok"]

\* a mutation of Rename: the source is removed and the target is not written
RenameRemoveOnly(d, dir, src, dst, on_posix) ==
    IF dir \notin DOMAIN d \/ d[dir][src] = Absent
    THEN [disk |-> d, err |-> "FileNotFoundError"]
    ELSE [disk |-> [d EXCEPT ![dir][src] = Absent], err |-> "ok"]

\* os.rename(<dir>/<src>, <dir>/<dst>), lines 138-145: the source must
\* exist; an existing target is replaced on POSIX and refused on Windows
Rename(d, dir, src, dst, on_posix) ==
    IF dir \notin DOMAIN d \/ d[dir][src] = Absent
    THEN [disk |-> d, err |-> "FileNotFoundError"]
    ELSE IF d[dir][dst] # Absent /\ ~on_posix
    THEN [disk |-> d, err |-> "FileExistsError"]
    ELSE [disk |-> [d EXCEPT ![dir][dst] = d[dir][src], ![dir][src] = Absent],
          err |-> "ok"]

\* The first argument of trim_feat_files is a list of mappings on the
\* high-memory path (line 203) and one mapping on the low-memory path
\* (line 246).
ListOf(mappings) == [kind |-> "list", items |-> mappings]
DictOf(mapping) == [kind |-> "dict", items |-> <<mapping>>]

\* a mutation of Subscript: every call takes the first partition's mapping
SubscriptFirst(trimmed_feats, part) ==
    IF trimmed_feats.kind = "list"
    THEN IF Len(trimmed_feats.items) > 0
         THEN [err |-> "ok", val |-> <<trimmed_feats.items[1]>>]
         ELSE [err |-> "IndexError", val |-> <<>>]
    ELSE [err |-> "KeyError", val |-> <<>>]

\* line 136: trimmed_feats[part], part an integer.  A list answers an index
\* in range; a mapping is keyed by feature keys and holds no integer key
Subscript(trimmed_feats, part) ==
    IF trimmed_feats.kind = "list"
    THEN IF part >= 0 /\ part < Len(trimmed_feats.items)
         THEN [err |-> "ok", val |-> <<trimmed_feats.items[part + 1]>>]
         ELSE [err |-> "IndexError", val |-> <<>>]
    ELSE [err |-> "KeyError", val |-> <<>>]

\* trim_feat_files(trimmed_feats, folder, file_name, part), lines 121-145
TrimFeatFiles(d, trimmed_feats, part, on_posix) ==
    LET arg == Subscript(trimmed_feats, part)
        dir == PartDirName(part)
    IN  IF arg.err # "ok" THEN [disk |-> d, err |-> arg.err]
        ELSE LET saved == SaveTensors(d, dir, "new", arg.val[1])
             IN  IF saved.err # "ok" THEN saved
                 ELSE LET moved == Rename(saved.disk, dir, "file", "bak", on_posix)
                      IN  IF moved.err # "ok" THEN moved
                          ELSE Rename(moved.disk, dir, "new", "file", on_posix)

(***************************************************************************)
(* trim_feat_files step by step on one partition, with the process allowed *)
(* to die between its steps and the call made again.                       *)
(***************************************************************************)
\* largest number of calls of trim_feat_files in one behaviour
MaxTrimRuns == 3

VARIABLES
    posix,       \* TRUE when os.rename replaces an existing target
    t_orig,      \* the mapping the feature file held before the first call
    t_feats,     \* trimmed_feats, the argument of every call
    t_disk,      \* the partition directories
    t_pc,        \* position in trim_feat_files
    t_hist       \* how each call so far ended

tVars == <<posix, t_orig, t_feats, t_disk, t_pc, t_hist>>

\* the partition the calls are made for
TrimPart == 0
\* its directory
TrimDir == PartDirName(TrimPart)

TInit ==
    /\ posix \in BOOLEAN
    /\ \E nrows \in 1..MaxPartRows, gone \in (SUBSET AllFeatKeys) \ {{}} :
          /\ t_orig = OrigMapping(TrimPart, AllFeatKeys, nrows)
          /\ t_feats = ListOf(<<OrigMapping(TrimPart, AllFeatKeys \ gone, nrows)>>)
    /\ t_disk = [k \in {TrimDir} |-> [NoFiles EXCEPT !.file = <<t_orig>>]]
    /\ t_pc = "idle"
    /\ t_hist = <<>>

TIdle ==
    /\ posix = TRUE
    /\ t_orig = OrigMapping(TrimPart, {}, 1)
    /\ t_feats = ListOf(<<>>)
    /\ t_disk = [k \in {} |-> NoFiles]
    /\ t_pc = "idle"
    /\ t_hist = <<>>

\* a step of trim_feat_files that ended with res: on an error the call ends
TrimStep(res, next_pc) ==
    /\ t_disk' = res.disk
    /\ IF res.err = "ok"
       THEN /\ t_pc' = next_pc
            /\ t_hist' = IF next_pc = "idle" THEN Append(t_hist, "ok") ELSE t_hist
       ELSE /\ t_pc' = "idle"
            /\ t_hist' = Append(t_hist, res.err)
    /\ UNCHANGED <<posix, t_orig, t_feats>>

\* lines 135-137: the call starts and writes new_<file>
T_Save ==
    /\ t_pc = "idle"
    /\ Len(t_hist) < MaxTrimRuns
    /\ LET arg == Subscript(t_feats, TrimPart)
       IN  IF arg.err # "ok"
           THEN TrimStep([disk |-> t_disk, err |-> arg.err], "saved")
           ELSE TrimStep(SaveTensors(t_disk, TrimDir, "new", arg.val[1]), "saved")

\* lines 138-141: <file> becomes <file>.bak
T_RenameToBak ==
    /\ t_pc = "saved"
    /\ TrimStep(Rename(t_disk, TrimDir, "file", "bak", posix), "moved")

\* lines 142-145: new_<file> becomes <file>, and the call returns
T_RenameFromNew ==
    /\ t_pc = "moved"
    /\ TrimStep(Rename(t_disk, TrimDir, "new", "file", posix), "idle")

\* the process dies inside trim_feat_files; the files stay as they are
T_Crash ==
    /\ t_pc \in {"saved", "moved"}
    /\ t_hist' = Append(t_hist, "crash@" \o t_pc)
    /\ t_pc' = "idle"
    /\ UNCHANGED <<posix, t_orig, t_feats, t_disk>>

(***************************************************************************)
(* convert_feat_to_wholegraph (lines 148-246).  The same dataset is        *)
(* converted twice, each time from its first state: once with              *)
(* use_low_mem = False (the hm_ variables) and once with use_low_mem =     *)
(* True (the lm_ variables).  The calls of the sharded-memory service      *)
(* inside wholegraph_processing succeed here; their failure is part of     *)
(* the step-by-step model of wholegraph_processing above.                  *)
(***************************************************************************)
\* largest number of partition directories of the dataset
MaxParts == 2
\* the numbers the partition directories of a dataset are taken from
PartIds == {0, 1, 2, 10}
\* largest number of features asked for in fname_dict
MaxFeats == 2

VARIABLES
    c_input,          \* the partition directories before the conversion
    c_fname,          \* fname_dict, as the <<type, name>> pairs in its order
    hm_pc,            \* high-memory run: position
    hm_disk,          \*   its partition directories
    hm_meta,          \*   its metadata record
    hm_shards,        \*   the shard files in its wholegraph folder
    hm_err,           \*   the exception that ended it, if one did
    feats_data,       \*   feats_data, the loaded mappings (lines 172-181)
    hm_num_parts,     \*   num_parts (line 182)
    hm_fi,            \*   index into c_fname of the feature in work
    hm_part,          \*   part, the loop variable of line 202
    whole_feat_tensor, \*  whole_feat_tensor of the last feature (line 192)
    lm_pc,            \* low-memory run: position
    lm_disk,          \*   its partition directories
    lm_meta,          \*   its metadata record
    lm_shards,        \*   the shard files in its wholegraph folder
    lm_err,           \*   the exception that ended it, if one did
    node_feats_data,  \*   node_feats_data (lines 213, 223-226)
    lm_num_parts,     \*   num_parts (lines 214, 227, 237, 245)
    lm_fi,            \*   index into c_fname of the feature in work
    lm_pi             \*   index into part_files of the partition in work

hmVars == <<hm_pc, hm_disk, hm_meta, hm_shards, hm_err, feats_data,
            hm_num_parts, hm_fi, hm_part, whole_feat_tensor>>
lmVars == <<lm_pc, lm_disk, lm_meta, lm_shards, lm_err, node_feats_data,
            lm_num_parts, lm_fi, lm_pi>>
cVars == <<c_input, c_fname, hmVars, lmVars>>

EmptyMap == [k \in {} |-> 0]
NoError == [kind |-> "none", feat |-> <<>>, keys |-> {}]
\* an exception: its type, the feature key its message names, the keys it lists
Raised(kind, feat, keys) == [kind |-> kind, feat |-> feat, keys |-> keys]
\* node_feats_data = None (line 213)
NoData == [set |-> FALSE, rows |-> <<>>]

\* f with the entries of g written over it
Overwrite(f, g) ==
    [k \in (DOMAIN f) \cup (DOMAIN g) |-> IF k \in DOMAIN g THEN g[k] ELSE f[k]]

Min(a, b) == IF a <= b THEN a ELSE b

\* whole_feat_tensor[st:end] for 0 <= st, 0 <= end: Python clamps to the length
PySlice(tensor, st, end) ==
    SubSeq(tensor, Min(st, Len(tensor)) + 1, Min(end, Len(tensor)))

\* a mutation of PartSortKey: the directories compare by their first digit,
\* as the names themselves would
PartSortKeyFirstDigit(name) ==
    DigitValue(name[5])

\* line 171: the sort key int(x.split("part")[1]) of a directory name
PartSortKey(name) ==
    PyInt(SubSeq(name, 5, Len(name)))

RECURSIVE SortedSeq(_)
\* line 171: sorted(part_files, key=...), for names with distinct keys
SortedSeq(S) ==
    IF S = {} THEN <<>>
    ELSE LET m == CHOOSE x \in S : \A y \in S : PartSortKey(x) <= PartSortKey(y)
         IN  <<m>> \o SortedSeq(S \ {m})

\* lines 165-171: the part<k> directories of the folder, sorted
PartFiles(d) ==
    SortedSeq(DOMAIN d)

RECURSIVE Concat(_)
\* th.concat(tensors, dim=0)
Concat(tensors) ==
    IF tensors = <<>> THEN <<>>
    ELSE Head(tensors) \o Concat(Tail(tensors))

\* wgth.utils.get_part_file_name(prefix, part_num, num_parts), line 114
PartFileName(prefix, p, num_parts) ==
    <<prefix, p, num_parts>>

\* lines 98-117 for the shard p: its file name, the size it is created with
\* (line 108) and the rows copied into it (line 113)
ShardFile(tensor, feat, num_parts, p) ==
    LET st == ShardSt(Len(tensor), num_parts, p)
        end == ShardEnd(Len(tensor), num_parts, p)
    IN  [size |-> end - st, rows |-> PySlice(tensor, st, end)]

\* wholegraph_processing(whole_feat_tensor, metadata, feat, wg_folder,
\* num_parts) run to its end (lines 90-118): the metadata record and the
\* shard files after it
WholegraphProcessing(tensor, metadata, shards, feat, num_parts) ==
    [meta |-> Overwrite(metadata,
                        [f \in {feat} |-> [shape |-> <<Len(tensor)>>,
                                           dtype |-> "float32"]]),
     shards |-> Overwrite(shards,
                          [n \in {PartFileName(ReplaceSlash(feat), p, num_parts) :
                                      p \in 0..(num_parts - 1)} |->
                              ShardFile(tensor, feat, num_parts, n[2])])]

\* the feature keys asked for, in the order the loops of lines 183-185,
\* 210-212 and 240-242 take them
Requested(i) ==
    FeatKey(c_fname[i][1], c_fname[i][2])

HMInit ==
    /\ hm_pc = "load"
    /\ hm_disk = c_input
    /\ hm_meta = EmptyMap
    /\ hm_shards = EmptyMap
    /\ hm_err = NoError
    /\ feats_data = <<>>
    /\ hm_num_parts = 0
    /\ hm_fi = 1
    /\ hm_part = 0
    /\ whole_feat_tensor = <<>>

LMInit ==
    /\ lm_pc = "feat"
    /\ lm_disk = c_input
    /\ lm_meta = EmptyMap
    /\ lm_shards = EmptyMap
    /\ lm_err = NoError
    /\ node_feats_data = NoData
    /\ lm_num_parts = 0
    /\ lm_fi = 1
    /\ lm_pi = 1

\* the datasets converted: some part<k> directories, each with a feature file that
\* holds some of the feature keys, and the features asked for
CInit ==
    /\ \E ids \in {S \in SUBSET PartIds : Cardinality(S) <= MaxParts} :
          \E keys \in [ids -> SUBSET AllFeatKeys],
             nrows \in [ids -> 1..MaxPartRows] :
              c_input = [name \in {PartDirName(k) : k \in ids} |->
                            LET k == CHOOSE k \in ids : PartDirName(k) = name
                            IN  [NoFiles EXCEPT
                                    !.file = <<OrigMapping(k, keys[k], nrows[k])>>]]
    /\ \E n \in 0..MaxFeats : c_fname \in [1..n -> TypeNames \X FeatNames]
    /\ HMInit
    /\ LMInit

CIdle ==
    /\ c_input = EmptyMap
    /\ c_fname = <<>>
    /\ HMInit
    /\ LMInit

\* the high-memory run ends with an exception
HMRaise(e) ==
    /\ hm_pc' = "failed"
    /\ hm_err' = e

\* lines 180-182: every partition's feature file is loaded
HM_Load ==
    /\ hm_pc = "load"
    /\ LET parts == PartFiles(hm_disk)
       IN  IF \E i \in 1..Len(parts) : hm_disk[parts[i]].file = Absent
           THEN /\ HMRaise(Raised("DGLError", <<>>, {}))
                /\ UNCHANGED <<feats_data, hm_num_parts>>
           ELSE /\ feats_data' = [i \in 1..Len(parts) |-> hm_disk[parts[i]].file[1]]
                /\ hm_num_parts' = Len(parts)
                /\ hm_pc' = "feat"
                /\ hm_err' = hm_err
    /\ UNCHANGED <<c_input, c_fname, hm_disk, hm_meta, hm_shards, hm_fi, hm_part,
                   whole_feat_tensor, lmVars>>

\* line 186: feat in feats_data[0]
HMKnown(feat) ==
    feat \in DOMAIN feats_data[1]

\* lines 184-200: one feature is checked, concatenated, deleted and resharded
HM_Feat ==
    /\ hm_pc = "feat"
    /\ hm_fi <= Len(c_fname)
    /\ LET feat == Requested(hm_fi)
       IN  IF hm_num_parts = 0
           THEN \* line 186: feats_data[0] of an empty list
                /\ HMRaise(Raised("IndexError", <<>>, {}))
                /\ UNCHANGED <<feats_data, hm_meta, hm_shards, hm_fi, whole_feat_tensor>>
           ELSE IF ~HMKnown(feat)
           THEN \* lines 187-190
                /\ HMRaise(Raised("UnknownFeature", feat, DOMAIN feats_data[1]))
                /\ UNCHANGED <<feats_data, hm_meta, hm_shards, hm_fi, whole_feat_tensor>>
           ELSE IF \E i \in 1..Len(feats_data) : feat \notin DOMAIN feats_data[i]
           THEN \* line 193: t[feat] of a partition without the key
                /\ HMRaise(Raised("KeyError", feat, {}))
                /\ UNCHANGED <<feats_data, hm_meta, hm_shards, hm_fi, whole_feat_tensor>>
           ELSE LET whole == Concat([i \in 1..Len(feats_data) |-> feats_data[i][feat]])
                    done == WholegraphProcessing(whole, hm_meta, hm_shards, feat,
                                                 hm_num_parts)
                IN  /\ whole_feat_tensor' = whole
                    /\ feats_data' = [i \in 1..Len(feats_data) |->
                                         DelKey(feats_data[i], feat)]
                    /\ hm_meta' = done.meta
                    /\ hm_shards' = done.shards
                    /\ hm_fi' = hm_fi + 1
                    /\ UNCHANGED <<hm_pc, hm_err>>
    /\ UNCHANGED <<c_input, c_fname, hm_disk, hm_num_parts, hm_part, lmVars>>

\* lines 183-184 exhausted: on to the trimming loop of line 202
HM_FeatsDone ==
    /\ hm_pc = "feat"
    /\ hm_fi > Len(c_fname)
    /\ hm_pc' = "trim"
    /\ hm_part' = 0
    /\ UNCHANGED <<c_input, c_fname, hm_disk, hm_meta, hm_shards, hm_err,
                   feats_data, hm_num_parts, hm_fi, whole_feat_tensor, lmVars>>

\* lines 202-203: trim_feat_files(feats_data, folder, file_name, part)
HM_Trim ==
    /\ hm_pc = "trim"
    /\ hm_part < hm_num_parts
    /\ LET res == TrimFeatFiles(hm_disk, ListOf(feats_data), hm_part, posix)
       IN  /\ hm_disk' = res.disk
           /\ IF res.err = "ok"
              THEN /\ hm_part' = hm_part + 1
                   /\ UNCHANGED <<hm_pc, hm_err>>
              ELSE /\ HMRaise(Raised(res.err, <<>>, {}))
                   /\ hm_part' = hm_part
    /\ UNCHANGED <<c_input, c_fname, hm_meta, hm_shards, feats_data,
                   hm_num_parts, hm_fi, whole_feat_tensor, lmVars>>

\* line 202 exhausted: the call returns
HM_Return ==
    /\ hm_pc = "trim"
    /\ hm_part = hm_num_parts
    /\ hm_pc' = "done"
    /\ UNCHANGED <<c_input, c_fname, hm_disk, hm_meta, hm_shards, hm_err,
                   feats_data, hm_num_parts, hm_fi, hm_part, whole_feat_tensor, lmVars>>


\* the low-memory run ends with an exception
LMRaise(e) ==
    /\ lm_pc' = "failed"
    /\ lm_err' = e

\* lines 211-214: the next feature starts with nothing accumulated
LM_Feat ==
    /\ lm_pc = "feat"
    /\ lm_fi <= Len(c_fname)
    /\ node_feats_data' = NoData
    /\ lm_num_parts' = 0
    /\ lm_pi' = 1
    /\ lm_pc' = "read"
    /\ UNCHANGED <<c_input, c_fname, lm_disk, lm_meta, lm_shards, lm_err, lm_fi, hmVars>>

\* a mutation of LMAppend: the partition's rows go in front
LMAppendFront(acc, tensor) ==
    IF ~acc.set
    THEN [set |-> TRUE, rows |-> tensor]
    ELSE [set |-> TRUE, rows |-> tensor \o acc.rows]

\* lines 223-226: node_feats_data takes the partition's rows at its end
LMAppend(acc, tensor) ==
    IF ~acc.set
    THEN [set |-> TRUE, rows |-> tensor]
    ELSE [set |-> TRUE, rows |-> acc.rows \o tensor]

\* lines 216-227: one partition's file is loaded for the feature in work
LM_Read ==
    /\ lm_pc = "read"
    /\ lm_pi <= Len(PartFiles(lm_disk))
    /\ LET feat == Requested(lm_fi)
           slot == lm_disk[PartFiles(lm_disk)[lm_pi]].file
       IN  IF slot = Absent
           THEN /\ LMRaise(Raised("DGLError", <<>>, {}))
                /\ UNCHANGED <<node_feats_data, lm_num_parts, lm_pi>>
           ELSE IF feat \notin DOMAIN slot[1]
           THEN \* lines 218-222
                /\ LMRaise(Raised("UnknownFeature", feat, DOMAIN slot[1]))
                /\ UNCHANGED <<node_feats_data, lm_num_parts, lm_pi>>
           ELSE /\ node_feats_data' = LMAppend(node_feats_data, slot[1][feat])
                /\ lm_num_parts' = lm_num_parts + 1
                /\ lm_pi' = lm_pi + 1
                /\ UNCHANGED <<lm_pc, lm_err>>
    /\ UNCHANGED <<c_input, c_fname, lm_disk, lm_meta, lm_shards, lm_fi, hmVars>>

\* lines 228-236: the partitions are exhausted; the feature is resharded
LM_Process ==
    /\ lm_pc = "read"
    /\ lm_pi > Len(PartFiles(lm_disk))
    /\ IF Len(PartFiles(lm_disk)) = 0
       THEN \* line 228: del nfeat, a name no iteration has bound
            /\ LMRaise(Raised("UnboundLocalError", <<>>, {}))
            /\ UNCHANGED <<lm_meta, lm_shards, lm_fi>>
       ELSE LET done == WholegraphProcessing(node_feats_data.rows, lm_meta, lm_shards,
                                             Requested(lm_fi), lm_num_parts)
            IN  /\ lm_meta' = done.meta
                /\ lm_shards' = done.shards
                /\ lm_fi' = lm_fi + 1
                /\ lm_pc' = "feat"
                /\ lm_err' = lm_err
    /\ UNCHANGED <<c_input, c_fname, lm_disk, node_feats_data, lm_num_parts, lm_pi, hmVars>>

\* lines 210-211 exhausted: line 237, on to the trimming loop of line 238
LM_FeatsDone ==
    /\ lm_pc = "feat"
    /\ lm_fi > Len(c_fname)
    /\ lm_num_parts' = 0
    /\ lm_pi' = 1
    /\ lm_pc' = "trim"
    /\ UNCHANGED <<c_input, c_fname, lm_disk, lm_meta, lm_shards, lm_err,
                   node_feats_data, lm_fi, hmVars>>

RECURSIVE DelRequested(_, _)
\* lines 240-244: del feats_data[feat] for the features asked for, from the
\* i-th on; a key the mapping no longer holds raises KeyError
DelRequested(mapping, i) ==
    IF i > Len(c_fname) THEN [err |-> "ok", val |-> mapping]
    ELSE IF Requested(i) \notin DOMAIN mapping
    THEN [err |-> "KeyError", val |-> mapping]
    ELSE DelRequested(DelKey(mapping, Requested(i)), i + 1)

\* lines 245-246: num_parts has been incremented; the arguments of
\* trim_feat_files are the partition's mapping and num_parts
LMTrimArgs(trimmed, num_parts) ==
    [feats |-> DictOf(trimmed), part |-> num_parts]

\* lines 238-246: one partition's file is loaded again, stripped and trimmed
LM_Trim ==
    /\ lm_pc = "trim"
    /\ lm_pi <= Len(PartFiles(lm_disk))
    /\ LET slot == lm_disk[PartFiles(lm_disk)[lm_pi]].file
       IN  IF slot = Absent
           THEN /\ LMRaise(Raised("DGLError", <<>>, {}))
                /\ UNCHANGED <<lm_disk, lm_num_parts, lm_pi>>
           ELSE LET stripped == DelRequested(slot[1], 1)
                IN  IF stripped.err # "ok"
                    THEN /\ LMRaise(Raised(stripped.err, <<>>, {}))
                         /\ UNCHANGED <<lm_disk, lm_num_parts, lm_pi>>
                    ELSE LET args == LMTrimArgs(stripped.val, lm_num_parts + 1)
                             res == TrimFeatFiles(lm_disk, args.feats, args.part, posix)
                         IN  /\ lm_num_parts' = lm_num_parts + 1
                             /\ lm_disk' = res.disk
                             /\ IF res.err = "ok"
                                THEN /\ lm_pi' = lm_pi + 1
                                     /\ UNCHANGED <<lm_pc, lm_err>>
                                ELSE /\ LMRaise(Raised(res.err, <<>>, {}))
                                     /\ lm_pi' = lm_pi
    /\ UNCHANGED <<c_input, c_fname, lm_meta, lm_shards, node_feats_data, lm_fi, hmVars>>

\* line 238 exhausted: the call returns
LM_Return ==
    /\ lm_pc = "trim"
    /\ lm_pi > Len(PartFiles(lm_disk))
    /\ lm_pc' = "done"
    /\ UNCHANGED <<c_input, c_fname, lm_disk, lm_meta, lm_shards, lm_err,
                   node_feats_data, lm_num_parts, lm_fi, lm_pi, hmVars>>

HMEnded == hm_pc \in {"done", "failed"}
LMEnded == lm_pc \in {"done", "failed"}

(***************************************************************************)
(* A group of processes, each with its own handle, calling the collective  *)
(* operations create, attach_wg_optimizer, read and write (lines 388-433,  *)
(* 489-526).  What a process does before it reaches the service is taken   *)
(* from this file; that a call which reached the service completes when    *)
(* every process of the group has reached it with the same operation is    *)
(* the contract of the service.  The service calls succeed here.           *)
(***************************************************************************)
\* number of processes of the group
NumProcs == 2
\* largest number of calls in a process's program
MaxCalls == 2

VARIABLES
    g_prog,     \* per process: the calls it makes, in order
    g_pos,      \* per process: index of the call it is at
    g_pc,       \* per process: "idle", "waiting" inside the service, "failed"
    g_handle    \* per process: its handle

gVars == <<g_prog, g_pos, g_pc, g_handle>>

Procs == 1..NumProcs

\* the calls: the constructor with use_wg_optimizer True and False,
\* attach_wg_optimizer, __getitem__, __setitem__
GroupOps == {<<"create", TRUE>>, <<"create", FALSE>>, <<"attach", FALSE>>,
             <<"read", FALSE>>, <<"write", FALSE>>}

NoHandle == [exists |-> FALSE, use |-> FALSE, optimizer |-> FALSE, tensor |-> FALSE]

\* a program without its i-th call
Omit(prog, i) ==
    SubSeq(prog, 1, i - 1) \o SubSeq(prog, i + 1, Len(prog))

\* every process is given the same program, or one process omits one call
GInit ==
    /\ \E n \in 0..MaxCalls :
          \E base \in [1..n -> GroupOps], dev \in 0..NumProcs, i \in 1..MaxCalls :
              /\ dev # 0 => i <= n
              /\ dev = 0 => i = 1
              /\ g_prog = [p \in Procs |-> IF p = dev THEN Omit(base, i) ELSE base]
    /\ g_pos = [p \in Procs |-> 1]
    /\ g_pc = [p \in Procs |-> "idle"]
    /\ g_handle = [p \in Procs |-> NoHandle]

GIdle ==
    /\ g_prog = [p \in Procs |-> <<>>]
    /\ g_pos = [p \in Procs |-> 1]
    /\ g_pc = [p \in Procs |-> "idle"]
    /\ g_handle = [p \in Procs |-> NoHandle]

\* the call process p is at
GOp(p) == g_prog[p][g_pos[p]]

\* what the call does before it reaches the service: nothing in the
\* constructor, the checks of lines 419-428 and 432-433 in
\* attach_wg_optimizer, the assertion of lines 501 and 523 in __setitem__
\* and __getitem__; a method called with no handle is a NameError
GLocalCheck(h, op) ==
    IF op[1] = "create" THEN "ok"
    ELSE IF ~h.exists THEN "NameError"
    ELSE IF op[1] = "attach"
    THEN IF ~h.use THEN "AssertionError"
         ELSE IF h.optimizer THEN "RuntimeError"
         ELSE IF h.tensor THEN "AssertionError"
         ELSE "ok"
    ELSE IF ~h.tensor THEN "AssertionError" ELSE "ok"

\* whether the call reaches the service: the constructor does only when it
\* creates the tensor itself (lines 408-415)
GReachesService(op) ==
    op[1] = "create" => EagerCreate(op[2])

\* the handle after the call has returned
GEffect(h, op) ==
    IF op[1] = "create"
    THEN [exists |-> TRUE, use |-> op[2], optimizer |-> FALSE,
          tensor |-> EagerCreate(op[2])]
    ELSE IF op[1] = "attach"
    THEN [h EXCEPT !.optimizer = TRUE, !.tensor = TRUE]
    ELSE h

\* process p makes its next call: it fails its check, or returns at once
\* without the service, or reaches the service and waits there
G_Call(p) ==
    /\ g_pc[p] = "idle"
    /\ g_pos[p] <= Len(g_prog[p])
    /\ IF GLocalCheck(g_handle[p], GOp(p)) # "ok"
       THEN /\ g_pc' = [g_pc EXCEPT ![p] = "failed"]
            /\ UNCHANGED <<g_pos, g_handle>>
       ELSE IF ~GReachesService(GOp(p))
       THEN /\ g_handle' = [g_handle EXCEPT ![p] = GEffect(g_handle[p], GOp(p))]
            /\ g_pos' = [g_pos EXCEPT ![p] = g_pos[p] + 1]
            /\ UNCHANGED g_pc
       ELSE /\ g_pc' = [g_pc EXCEPT ![p] = "waiting"]
            /\ UNCHANGED <<g_pos, g_handle>>
    /\ UNCHANGED g_prog

\* every process has reached the service with the same operation
GroupComplete ==
    /\ \A p \in Procs : g_pc[p] = "waiting"
    /\ \A p, q \in Procs : GOp(p) = GOp(q)

\* the collective operation completes and returns on the waiting processes
G_Complete ==
    /\ GroupComplete
    /\ g_pc' = [p \in Procs |-> IF g_pc[p] = "waiting" THEN "idle" ELSE g_pc[p]]
    /\ g_pos' = [p \in Procs |-> IF g_pc[p] = "waiting" THEN g_pos[p] + 1 ELSE g_pos[p]]
    /\ g_handle' = [p \in Procs |->
                       IF g_pc[p] = "waiting" THEN GEffect(g_handle[p], GOp(p))
                       ELSE g_handle[p]]
    /\ UNCHANGED g_prog

(***************************************************************************)
(* The specifications.                                                     *)
(***************************************************************************)
vars == <<wpVars, iVars, hVars, tVars, cVars, gVars>>

ReshardInit == WPInit /\ IIdle /\ HIdle /\ TIdle /\ CIdle /\ GIdle

ReshardNext ==
    \/ WP_Enter /\ UNCHANGED <<iVars, hVars, tVars, cVars, gVars>>
    \/ WP_Range /\ UNCHANGED <<iVars, hVars, tVars, cVars, gVars>>
    \/ WP_Create /\ UNCHANGED <<iVars, hVars, tVars, cVars, gVars>>
    \/ WP_Copy /\ UNCHANGED <<iVars, hVars, tVars, cVars, gVars>>
    \/ WP_Write /\ UNCHANGED <<iVars, hVars, tVars, cVars, gVars>>
    \/ WP_Destroy /\ UNCHANGED <<iVars, hVars, tVars, cVars, gVars>>
    \/ WP_ServiceError /\ UNCHANGED <<iVars, hVars, tVars, cVars, gVars>>
    \/ WP_Return /\ UNCHANGED <<iVars, hVars, tVars, cVars, gVars>>

\* one call of wholegraph_processing, for every row count and shard count
SpecReshard == ReshardInit /\ [][ReshardNext]_vars

HandleInit == WPIdle /\ IIdle /\ HInit /\ TIdle /\ CIdle /\ GIdle

HandleNext ==
    \/ \E ndim \in 1..MaxDims, use \in BOOLEAN :
           H_Create(ndim, use) /\ UNCHANGED <<wpVars, iVars, tVars, cVars, gVars>>
    \/ \E o \in OptimizerArgs : H_Attach(o) /\ UNCHANGED <<wpVars, iVars, tVars, cVars, gVars>>
    \/ H_Read /\ UNCHANGED <<wpVars, iVars, tVars, cVars, gVars>>
    \/ H_Write /\ UNCHANGED <<wpVars, iVars, tVars, cVars, gVars>>
    \/ H_Save /\ UNCHANGED <<wpVars, iVars, tVars, cVars, gVars>>
    \/ H_Load /\ UNCHANGED <<wpVars, iVars, tVars, cVars, gVars>>

\* one WholeGraphDistTensor and any calls on it
SpecHandle == HandleInit /\ [][HandleNext]_vars

TrimInit == WPIdle /\ IIdle /\ HIdle /\ TInit /\ CIdle /\ GIdle

TrimNext ==
    \/ T_Save /\ UNCHANGED <<wpVars, iVars, hVars, cVars, gVars>>
    \/ T_RenameToBak /\ UNCHANGED <<wpVars, iVars, hVars, cVars, gVars>>
    \/ T_RenameFromNew /\ UNCHANGED <<wpVars, iVars, hVars, cVars, gVars>>
    \/ T_Crash /\ UNCHANGED <<wpVars, iVars, hVars, cVars, gVars>>

\* repeated calls of trim_feat_files on one partition, with crashes
SpecTrim == TrimInit /\ [][TrimNext]_vars

ConvertInit == WPIdle /\ IIdle /\ HIdle /\ posix = TRUE /\ t_orig = EmptyMap
               /\ t_feats = ListOf(<<>>) /\ t_disk = EmptyMap /\ t_pc = "idle"
               /\ t_hist = <<>> /\ CInit /\ GIdle

ConvertNext ==
    \/ HM_Load /\ UNCHANGED <<wpVars, iVars, hVars, tVars, gVars>>
    \/ HM_Feat /\ UNCHANGED <<wpVars, iVars, hVars, tVars, gVars>>
    \/ HM_FeatsDone /\ UNCHANGED <<wpVars, iVars, hVars, tVars, gVars>>
    \/ HM_Trim /\ UNCHANGED <<wpVars, iVars, hVars, tVars, gVars>>
    \/ HM_Return /\ UNCHANGED <<wpVars, iVars, hVars, tVars, gVars>>
    \/ HMEnded /\ LM_Feat /\ UNCHANGED <<wpVars, iVars, hVars, tVars, gVars>>
    \/ HMEnded /\ LM_Read /\ UNCHANGED <<wpVars, iVars, hVars, tVars, gVars>>
    \/ HMEnded /\ LM_Process /\ UNCHANGED <<wpVars, iVars, hVars, tVars, gVars>>
    \/ HMEnded /\ LM_FeatsDone /\ UNCHANGED <<wpVars, iVars, hVars, tVars, gVars>>
    \/ HMEnded /\ LM_Trim /\ UNCHANGED <<wpVars, iVars, hVars, tVars, gVars>>
    \/ HMEnded /\ LM_Return /\ UNCHANGED <<wpVars, iVars, hVars, tVars, gVars>>

\* the two conversions of one dataset: the high-memory run, then the
\* low-memory run on the same input
SpecConvert == ConvertInit /\ [][ConvertNext]_vars

ServiceInit == WPIdle /\ IInit /\ HInit /\ TIdle /\ CIdle /\ GIdle

ServiceNext ==
    \/ init_wholegraph /\ UNCHANGED <<wpVars, hVars, tVars, cVars, gVars>>
    \/ load_wg_feat /\ UNCHANGED <<wpVars, hVars, tVars, cVars, gVars>>
    \/ create_wholememory_optimizer /\ UNCHANGED <<wpVars, hVars, tVars, cVars, gVars>>
    \/ create_wg_sparse_params /\ UNCHANGED <<wpVars, hVars, tVars, cVars, gVars>>
    \/ \E ndim \in 1..MaxDims, use \in BOOLEAN :
           H_Create(ndim, use) /\ UNCHANGED <<wpVars, iVars, tVars, cVars, gVars>>
    \/ \E o \in OptimizerArgs : H_Attach(o) /\ UNCHANGED <<wpVars, iVars, tVars, cVars, gVars>>
    \/ H_Read /\ UNCHANGED <<wpVars, iVars, tVars, cVars, gVars>>
    \/ H_Write /\ UNCHANGED <<wpVars, iVars, tVars, cVars, gVars>>

\* a process from its start: init_wholegraph, the entry points and a handle,
\* called in any order
SpecService == ServiceInit /\ [][ServiceNext]_vars

GroupInit == WPIdle /\ IIdle /\ HIdle /\ TIdle /\ CIdle /\ GInit

GroupNext ==
    \/ \E p \in Procs : G_Call(p) /\ UNCHANGED <<wpVars, iVars, hVars, tVars, cVars>>
    \/ G_Complete /\ UNCHANGED <<wpVars, iVars, hVars, tVars, cVars>>

\* the processes of a group, each running to the end of its program: a
\* process that can make its next call makes it, and a collective
\* operation that can complete completes
SpecGroup ==
    /\ GroupInit
    /\ [][GroupNext]_vars
    /\ \A p \in Procs :
           WF_vars(G_Call(p) /\ UNCHANGED <<wpVars, iVars, hVars, tVars, cVars>>)
    /\ WF_vars(G_Complete /\ UNCHANGED <<wpVars, iVars, hVars, tVars, cVars>>)


(***************************************************************************)
(* The resharder's row ranges (SpecReshard).                               *)
(***************************************************************************)
\* row r lies in the range rg = <<st, end>>
InRange(r, rg) == rg[1] <= r /\ r < rg[2]

RECURSIVE SumSizes(_)
\* the sum of end - st over the ranges
SumSizes(rgs) ==
    IF rgs = <<>> THEN 0
    ELSE (Head(rgs)[2] - Head(rgs)[1]) + SumSizes(Tail(rgs))

\* C1: the ranges [st, end) computed for shards 0 .. N-1 are contiguous
\* (the first starts at row 0, each next one starts where the one before
\* ends), no row lies in two of them, and once all N are computed the last
\* one ends at R, the sizes end - st sum to R and every row of the tensor
\* lies in exactly one of them.
C1_RangesPartitionRows ==
    /\ \A i \in 1..Len(wp_ranges) :
          wp_ranges[i][1] = (IF i = 1 THEN 0 ELSE wp_ranges[i - 1][2])
    /\ \A i, j \in 1..Len(wp_ranges) :
          i # j => ~ \E r \in 0..(wp_rows + wp_num_parts) :
                        InRange(r, wp_ranges[i]) /\ InRange(r, wp_ranges[j])
    /\ Len(wp_ranges) = wp_num_parts =>
          /\ wp_ranges[wp_num_parts][2] = wp_rows
          /\ SumSizes(wp_ranges) = wp_rows
          /\ \A r \in 0..(wp_rows - 1) :
                Cardinality({i \in 1..wp_num_parts : InRange(r, wp_ranges[i])}) = 1

\* a call that returned after computing several ranges for a row count the
\* shard count does not divide
C1_Witness ==
    /\ wp_pc = "done"
    /\ wp_num_parts > 1
    /\ wp_rows % wp_num_parts # 0
    /\ Len(wp_ranges) = wp_num_parts

HUnbound ==
    h_optimizer = None /\ h_tensor = NoTensor /\ h_module = None
HBoundPlain ==
    h_optimizer = None /\ h_tensor # NoTensor /\ h_module = None
HBoundTrainable ==
    BoundTrainable(h_optimizer, h_tensor, h_module)

\* C3, as claimed: after any calls, failed ones included, the optimizer, the
\* tensor and the module of a handle are in one of the three combinations
\* UNBOUND, BOUND-PLAIN, BOUND-TRAINABLE.
C3_LegalTriple ==
    h_exists => (HUnbound \/ HBoundPlain \/ HBoundTrainable)

\* C4: a call of attach_wg_optimizer on a handle that is not UNBOUND fails
\* and leaves the optimizer, the tensor and the module as they were, so a
\* call that returns was made on an UNBOUND handle; and a handle becomes
\* BOUND-TRAINABLE at most once.
C4_AttachOnlyWhenUnbound ==
    /\ [][(h_nops' = h_nops + 1 /\ h_last'.op = "attach" /\ ~HUnbound) =>
              /\ h_last'.result \in {"AssertionError", "RuntimeError"}
              /\ <<h_optimizer, h_tensor, h_module>>' =
                     <<h_optimizer, h_tensor, h_module>>]_vars
    /\ [](h_nbound <= 1)

\* a second attach_wg_optimizer on a BOUND-TRAINABLE handle has failed
C4_Witness ==
    /\ h_last.op = "attach"
    /\ h_last.result = "RuntimeError"
    /\ HBoundTrainable
    /\ h_nbound = 1

\* the calls the claim names: __getitem__, __setitem__, save_to_file
TensorCalls == {"read", "write", "save"}

\* C5, as claimed: a handle created with use_wg_optimizer=True has no tensor
\* until a call of attach_wg_optimizer has returned, until then read, write
\* and save fail on the assertion without reaching the service, and after it
\* they reach the service.
C5_NoTensorUntilAttach ==
    (h_exists /\ use_wg_optimizer) =>
        IF ~h_attached
        THEN /\ h_tensor = NoTensor
             /\ h_last.op \in TensorCalls =>
                    (h_last.result = "AssertionError" /\ ~h_last.svc)
        ELSE h_last.op \in TensorCalls => h_last.svc

\* C6: a handle created with use_wg_optimizer=False is BOUND-PLAIN from its
\* creation on, and every read and write on it passes the tensor assertion
\* and reaches the service, no attach_wg_optimizer having returned.
C6_PlainHandleUsable ==
    (h_exists /\ ~use_wg_optimizer) =>
        /\ HBoundPlain
        /\ ~h_attached
        /\ h_last.op \in {"read", "write"} =>
               (h_last.result # "AssertionError" /\ h_last.svc)

\* create(use_wg_optimizer=False), then a read that returned: two calls
C6_Witness ==
    /\ h_exists
    /\ ~use_wg_optimizer
    /\ h_nops = 2
    /\ h_last = Call("read", "ok", TRUE)

(***************************************************************************)
(* The trimmer called again (SpecTrim).                                    *)
(***************************************************************************)
\* the mapping is the content of some file of the partition
OnDisk(mapping) ==
    \E slot \in {"file", "bak", "new"} : t_disk[TrimDir][slot] = <<mapping>>

\* the mapping every call is asked to leave in the feature file
Trimmed == t_feats.items[TrimPart + 1]

IsCrash(outcome) == outcome \in {"crash@saved", "crash@moved"}

\* C7, as claimed: a call of trim_feat_files made after one that returned,
\* the .bak of that one in place, returns too, and after it the original
\* mapping is still in a file of the partition and the feature file holds
\* the trimmed mapping.
C7_SecondTrimKeepsData ==
    LET n == Len(t_hist)
    IN  (t_pc = "idle" /\ n >= 2 /\ t_hist[n - 1] = "ok" /\ ~IsCrash(t_hist[n])) =>
            /\ t_hist[n] = "ok"
            /\ OnDisk(t_orig)
            /\ t_disk[TrimDir].file = <<Trimmed>>

\* C8, as claimed: after a crash between the two renames, the next call of
\* trim_feat_files returns and leaves the trimmed mapping in the feature
\* file and the original mapping in the .bak file.
C8_RerunAfterCrashRecovers ==
    LET n == Len(t_hist)
    IN  (t_pc = "idle" /\ n >= 2 /\ t_hist[n - 1] = "crash@moved"
            /\ ~IsCrash(t_hist[n])) =>
            /\ t_hist[n] = "ok"
            /\ t_disk[TrimDir].file = <<Trimmed>>
            /\ t_disk[TrimDir].bak = <<t_orig>>

(***************************************************************************)
(* The two conversion paths (SpecConvert).                                 *)
(***************************************************************************)
\* the low-memory run has taken every requested feature through line 236:
\* all its shard files and metadata entries are written
LMConverted == lm_fi > Len(c_fname)

\* C2: when the high-memory conversion of a dataset has returned and the
\* low-memory conversion of the same dataset has converted every requested
\* feature, the wholegraph folders hold the same shard files (same names,
\* same rows in each) and the metadata records are the same (same keys,
\* same shape and dtype).
C2_SameShardsAndMetadata ==
    (hm_pc = "done" /\ LMConverted) =>
        /\ hm_shards = lm_shards
        /\ hm_meta = lm_meta

\* the high-memory run has returned, the low-memory run is through its
\* conversion, and a feature of two partitions has been resharded
C2_Witness ==
    /\ hm_pc = "done"
    /\ LMConverted
    /\ hm_num_parts = 2
    /\ DOMAIN hm_meta # {}
    /\ DOMAIN lm_shards # {}

\* the feature keys of partition k's file before the conversion
InputKeys(k) == DOMAIN c_input[k].file[1]

\* the requested feature keys that some partition's file does not hold
MissingRequested ==
    {f \in {Requested(i) : i \in 1..Len(c_fname)} :
        \E k \in DOMAIN c_input : f \notin InputKeys(k)}

\* a run that ended failed with the unknown-feature error, naming a missing
\* key and listing keys of a partition without it, with no shard file of
\* that key written and no partition file touched
FailedUnknown(pc, err, shards, d) ==
    /\ pc = "failed"
    /\ err.kind = "UnknownFeature"
    /\ err.feat \in MissingRequested
    /\ \E k \in DOMAIN c_input : err.feat \notin InputKeys(k) /\ err.keys \subseteq InputKeys(k)
    /\ \A n \in DOMAIN shards : n[1] # ReplaceSlash(err.feat)
    /\ d = c_input

\* C9, as claimed: when a requested feature key is absent from some
\* partition's mapping, the conversion fails on either path with the
\* unknown-feature error that names the key and lists the available keys,
\* before a shard file of that key is written or a partition file trimmed.
C9_UnknownFeatureError ==
    MissingRequested # {} =>
        /\ HMEnded => FailedUnknown(hm_pc, hm_err, hm_shards, hm_disk)
        /\ LMEnded => FailedUnknown(lm_pc, lm_err, lm_shards, lm_disk)

(***************************************************************************)
(* The order of the partitions (SpecConvert).                              *)
(***************************************************************************)
RECURSIVE AscendingParts(_)
\* the directories part<k> for the numbers k of a set, smallest number first
AscendingParts(ids) ==
    IF ids = {} THEN <<>>
    ELSE LET m == CHOOSE x \in ids : \A y \in ids : x <= y
         IN  <<PartDirName(m)>> \o AscendingParts(ids \ {m})

\* the numbers of the partition directories of the dataset
InputIds == {k \in PartIds : PartDirName(k) \in DOMAIN c_input}

\* the rows of feature feat of all partitions, in ascending order of the
\* partition number
RowsInNumericOrder(feat) ==
    LET dirs == AscendingParts(InputIds)
    IN  Concat([i \in 1..Len(dirs) |-> c_input[dirs[i]].file[1][feat]])

\* C11: the partition directories are taken in ascending order of their
\* number (part2 before part10), and on both paths the tensor handed to
\* wholegraph_processing for a feature is the concatenation of the
\* partitions' rows of that feature in that order.
C11_NumericPartitionOrder ==
    /\ PartFiles(c_input) = AscendingParts(InputIds)
    /\ hm_fi > 1 => whole_feat_tensor = RowsInNumericOrder(Requested(hm_fi - 1))
    /\ (lm_fi > 1 /\ lm_pc \in {"feat", "trim", "done"}) =>
            node_feats_data.rows = RowsInNumericOrder(Requested(lm_fi - 1))

\* both paths have resharded a feature of the dataset {part2, part10}
C11_Witness ==
    /\ InputIds = {2, 10}
    /\ hm_fi > 1
    /\ lm_fi > 1
    /\ lm_pc = "feat"
    /\ Len(whole_feat_tensor) >= 2

(***************************************************************************)
(* The partition files after the high-memory conversion (SpecConvert).     *)
(***************************************************************************)
\* the feature keys the caller asked for
RequestedKeys == {Requested(i) : i \in 1..Len(c_fname)}

\* a mapping without the keys of a set
WithoutKeys(mapping, gone) ==
    [f \in (DOMAIN mapping) \ gone |-> mapping[f]]

\* the directory holds the partition's own mapping less the converted keys
\* in its feature file, the partition's own full mapping in the .bak file,
\* and no temporary file
TrimmedOnce(d, name) ==
    /\ d[name].file = <<WithoutKeys(c_input[name].file[1], RequestedKeys)>>
    /\ d[name].bak = c_input[name].file
    /\ d[name].new = Absent

\* C12: when the high-memory conversion has returned, every partition's
\* feature file holds that partition's original mapping less the converted
\* keys and its .bak file holds that partition's original mapping: each
\* partition was trimmed once, with its own data.
C12_EveryPartitionTrimmedOnce ==
    hm_pc = "done" =>
        /\ DOMAIN hm_disk = DOMAIN c_input
        /\ \A name \in DOMAIN c_input : TrimmedOnce(hm_disk, name)

\* the high-memory conversion of part0 and part1 has returned after
\* converting a feature and leaving another in the files
C12_Witness ==
    /\ hm_pc = "done"
    /\ InputIds = {0, 1}
    /\ RequestedKeys # {}
    /\ \A name \in DOMAIN c_input : hm_disk[name].file # <<EmptyMap>>

(***************************************************************************)
(* The initialization flag (SpecService).                                  *)
(***************************************************************************)
\* a call of a module-level entry point other than init_wholegraph is made
EntryCalled ==
    e_nops' = e_nops + 1 /\ e_last'.op # "init_wholegraph"

\* the constructor of WholeGraphDistTensor is called
CreateCalled ==
    h_nops' = h_nops + 1 /\ h_last'.op = "create"

\* C13, as claimed: while the flag is false, load_wg_feat,
\* create_wholememory_optimizer, create_wg_sparse_params and the creation
\* of a WholeGraphDistTensor fail without calling the service; the flag
\* becomes true only when init_wholegraph completes and never becomes
\* false again.
C13_InitEnforcedEverywhere ==
    [][/\ (~WHOLEGRAPH_INIT /\ EntryCalled) =>
              (e_last'.result = "ImportError" /\ ~e_last'.svc)
       /\ (~WHOLEGRAPH_INIT /\ CreateCalled) =>
              (h_last'.result # "ok" /\ ~h_last'.svc /\ ~h_exists')
       /\ (~WHOLEGRAPH_INIT /\ WHOLEGRAPH_INIT') =>
              e_last' = Call("init_wholegraph", "ok", TRUE)
       /\ WHOLEGRAPH_INIT => WHOLEGRAPH_INIT']_vars

(***************************************************************************)
(* The shape handed to the constructor (SpecHandle).                       *)
(***************************************************************************)
\* C14, as claimed: a WholeGraphDistTensor exists only for a shape of
\* exactly two dimensions; with one dimension, or three or more, the
\* constructor fails and no handle and no tensor is created.
C14_OnlyTwoDimensionalShapes ==
    /\ h_exists => h_ndim = 2
    /\ h_tensor # NoTensor => h_ndim = 2

(***************************************************************************)
(* Collective calls in a group of processes (SpecGroup).                   *)
(***************************************************************************)
\* process q makes no further call: it failed a check, or its program is over
GEnded(q) ==
    \/ g_pc[q] = "failed"
    \/ g_pc[q] = "idle" /\ g_pos[q] > Len(g_prog[q])

\* process p's call returns in this step
GReturns(p) == g_pos'[p] = g_pos[p] + 1

\* every process is inside the operation process p is in
AllEntered(p) ==
    \A q \in Procs : g_pc[q] = "waiting" /\ GOp(q) = GOp(p)

\* process p waits in the service for a process that made no such call: one
\* that has ended, or one that waits in another operation
WaitsInVain(p) ==
    /\ g_pc[p] = "waiting"
    /\ \E q \in Procs : GEnded(q) \/ (g_pc[q] = "waiting" /\ GOp(q) # GOp(p))

SamePrograms == \A p, q \in Procs : g_prog[p] = g_prog[q]

\* the constructor with use_wg_optimizer = True
DeferredCreate == <<"create", TRUE>>

OptimizerBeforeTensor(i) ==
    (h_log[i][1] = "tensor" /\ h_log[i][2] # None) =>
        \E j \in 1..(i - 1) : h_log[j] = SetOptimizer(h_log[i][2])

\* the i-th assignment creates a module after an earlier one created a tensor
TensorBeforeModule(i) ==
    h_log[i][1] = "module" =>
        \E j \in 1..(i - 1) : h_log[j][1] = "tensor"

\* C16: on every handle the optimizer a tensor is bound to is recorded
\* before that tensor is created and a module is created after its tensor;
\* an attach_wg_optimizer that returns has recorded its optimizer, then
\* created the tensor bound to it, then created the module.
C16_OptimizerTensorModuleOrder ==
    /\ \A i \in 1..Len(h_log) : OptimizerBeforeTensor(i) /\ TensorBeforeModule(i)
    /\ h_last = Call("attach", "ok", TRUE) =>
           /\ Len(h_log) >= 3
           /\ SubSeq(h_log, Len(h_log) - 2, Len(h_log)) =
                  <<SetOptimizer(h_optimizer), <<"tensor", h_optimizer>>, SetModule>>

\* attach_wg_optimizer has just returned on a handle that was UNBOUND
C16_Witness ==
    /\ h_last = Call("attach", "ok", TRUE)
    /\ h_optimizer # None
    /\ h_tensor = TensorWith(h_optimizer)
    /\ h_module # None

(***************************************************************************)
(* The first call of trim_feat_files on a partition (SpecTrim).            *)
(***************************************************************************)
\* the first call, made with no .bak file in the directory, is under way,
\* or it has ended (returned, failed or been cut short by a crash) and no
\* other call has started
FirstTrimRun ==
    \/ Len(t_hist) = 0
    \/ Len(t_hist) = 1 /\ t_pc = "idle"

\* C17: throughout the first call of trim_feat_files on a partition, and
\* after a crash at any point of it, the mapping the feature file held
\* before the call is on disk under the file's name or under the .bak
\* name; and no call ever removes a .bak file.
C17_OriginalKeptThroughTrim ==
    /\ [](FirstTrimRun =>
             \/ t_disk[TrimDir].file = <<t_orig>>
             \/ t_disk[TrimDir].bak = <<t_orig>>)
    /\ [][t_disk[TrimDir].bak # Absent => t_disk'[TrimDir].bak # Absent]_vars

\* the first call was cut short between its two renames: the feature file
\* is missing and the .bak file holds what it held
C17_Witness ==
    /\ t_hist = <<"crash@moved">>
    /\ t_disk[TrimDir].file = Absent
    /\ t_disk[TrimDir].bak = <<t_orig>>

(***************************************************************************)
(* The bounds of the row ranges (SpecReshard).                             *)
(***************************************************************************)
\* C18, as claimed: every range wholegraph_processing computes satisfies
\* 0 <= st <= end <= R, so no shard has a negative size end - st and none
\* addresses rows beyond R.
C18_RangesWithinRows ==
    \A i \in 1..Len(wp_ranges) :
        /\ 0 <= wp_ranges[i][1]
        /\ wp_ranges[i][1] <= wp_ranges[i][2]
        /\ wp_ranges[i][2] <= wp_rows

(***************************************************************************)
(* The shard tensors of wholegraph_processing (SpecReshard).               *)
(***************************************************************************)
\* the call has ended: it returned, or a service failure propagated
WPEnded == wp_pc \in {"done", "failed"}

\* C19, as claimed: at most one shard tensor is live at any point, and
\* when the call has ended, by returning or by a propagated service
\* failure, no shard tensor it created remains undestroyed.
C19_NoShardLeftAtEnd ==
    /\ Cardinality(wp_live) <= 1
    /\ WPEnded => wp_live = {}

\* C19, amended: at most one shard tensor is live at any point; when the
\* call returns no shard tensor it created remains undestroyed; when a
\* service failure in copy or write-to-file propagates, the shard tensor of
\* that iteration, and no other, remains undestroyed.
C19_OneShardAtATime ==
    /\ [](Cardinality(wp_live) <= 1)
    /\ [](wp_pc = "done" => wp_live = {})
    /\ [][(wp_pc \in {"copy", "write"} /\ wp_pc' = "failed") =>
              wp_live' = {part_num}]_vars

\* a service failure has ended the call in its second iteration or later:
\* the earlier shards are destroyed, the one in work is left
C19_Witness ==
    /\ wp_pc = "failed"
    /\ part_num >= 1
    /\ wp_live = {part_num}
    /\ wp_written = 0..(part_num - 1)

(***************************************************************************)
(* The trimming pass of the low-memory conversion (SpecConvert).           *)
(***************************************************************************)
\* C20, as claimed: the low-memory conversion trims the partitions as the
\* high-memory conversion does: on a dataset on which the high-memory run
\* returns, the low-memory run returns too and leaves every part<k>
\* feature file with part<k>'s mapping less the converted keys and the
\* original in the .bak file; and it touches no partition file before
\* every requested feature is converted.
C20_LowMemTrimsLikeHighMem ==
    /\ (hm_pc = "done" /\ LMEnded) =>
           /\ lm_pc = "done"
           /\ \A name \in DOMAIN c_input : TrimmedOnce(lm_disk, name)
    /\ lm_disk # c_input => LMConverted

(***************************************************************************)
(* The metadata record after wholegraph_processing (SpecReshard).          *)
(***************************************************************************)
\* C21, as claimed: when wholegraph_processing has ended, by returning or
\* by a propagated service failure, the metadata record holds the
\* feature's entry only if all num_parts shard files of the feature are
\* written; a call that failed part-way has left no entry.
C21_MetadataOnlyForCompleteFeatures ==
    (WPEnded /\ wp_meta) => wp_written = 0..(wp_num_parts - 1)

(***************************************************************************)
(* A failed attach_wg_optimizer (SpecHandle).                              *)
(***************************************************************************)
\* C22, as claimed: after attach_wg_optimizer has failed while creating
\* the tensor or the module, the handle holds no optimizer, no tensor and
\* no module; so attach_wg_optimizer is rejected with 'optimizer already
\* exists' only on a handle on which an earlier attach_wg_optimizer
\* returned.
C22_FailedAttachLeavesUnbound ==
    /\ h_last = Call("attach", "ServiceError", TRUE) => HUnbound
    /\ h_last = Call("attach", "RuntimeError", FALSE) => h_attached

====
